---- MODULE Spec2Model ----
(***************************************************************************)
(* N-body gravity simulation (simulate.py): pairwise force evaluation, its *)
(* range-partitioned parallel decomposition over a process pool, and the   *)
(* per-step velocity/position update driven by main.                       *)
(*                                                                         *)
(* Numbers.  A float64 value is modelled by a pair <<n, d>>:               *)
(*   d > 0, gcd(|n|, d) = 1   the finite value n/d (exact, no rounding)    *)
(*   <<1, 0>>, <<-1, 0>>      +inf, -inf                                   *)
(*   <<0, 0>>                 nan                                          *)
(* The operators F* follow IEEE-754 for the special values (x/0 = inf,     *)
(* 0/0 = nan, inf - inf = nan, 0 * inf = nan, nan absorbs), which is what  *)
(* numpy float64 arithmetic does (it warns, it does not raise).  Finite    *)
(* results are exact: rounding in the last bits is not modelled.           *)
(***************************************************************************)
EXTENDS Integers, Sequences, FiniteSets, TLC

VARIABLES
    pc,                 \* position of main / of the caller
    input_file,         \* the rows of the input file (header first)
    num_steps,          \* --num-steps
    num_cores,          \* --num-cores
    trajectories_file,  \* TRUE iff --trajectories-file was given
    positions,          \* main's positions array (mutated in place)
    velocities,         \* main's velocities array (mutated in place)
    masses,             \* main's masses array
    step,               \* loop variable of main
    forces,             \* forces of the current step
    trajectories,       \* main's trajectories array
    pool_args,          \* the argument tuples of the latest pool.map
    results,            \* its tasks: Pending, Returned or RaisedTask
    output_file,        \* the output file: NotWritten or Written
    trajectories_out    \* the trajectories file: NotWritten or Written

vars == <<pc, input_file, num_steps, num_cores, trajectories_file, positions,
          velocities, masses, step, forces, trajectories, pool_args, results,
          output_file, trajectories_out>>

\* a pool task: not finished yet, finished with its array, or raised
Pending == [state |-> "pending", value |-> <<>>]
Returned(arr) == [state |-> "returned", value |-> arr]
RaisedTask == [state |-> "raised", value |-> <<>>]

\* an output artifact: not written, or written with its contents
NotWritten == [written |-> FALSE, data |-> <<>>]
Written(d) == [written |-> TRUE, data |-> d]

----------------------------------------------------------------------------
(* float64 arithmetic *)

NaN == <<0, 0>>
PosInf == <<1, 0>>
NegInf == <<-1, 0>>
Zero == <<0, 1>>

Abs(x) == IF x < 0 THEN -x ELSE x
Sign(x) == IF x < 0 THEN -1 ELSE IF x > 0 THEN 1 ELSE 0

RECURSIVE GCD(_, _)
GCD(a, b) == IF b = 0 THEN a ELSE GCD(b, a % b)

\* the finite value n/d, d > 0, in lowest terms
Rat(n, d) == LET g == GCD(Abs(n), d) IN <<n \div g, d \div g>>

IsNaN(a) == a = NaN
IsInf(a) == a[2] = 0 /\ a[1] # 0
IsFinite(a) == a[2] # 0

FNeg(a) == <<-a[1], a[2]>>

FAdd(a, b) ==
    IF IsNaN(a) \/ IsNaN(b) THEN NaN
    ELSE IF IsInf(a) /\ IsInf(b) THEN (IF a = b THEN a ELSE NaN)
    ELSE IF IsInf(a) THEN a
    ELSE IF IsInf(b) THEN b
    ELSE LET g == GCD(a[2], b[2])
         IN Rat(a[1] * (b[2] \div g) + b[1] * (a[2] \div g), (a[2] \div g) * b[2])

FSub(a, b) == FAdd(a, FNeg(b))

FMul(a, b) ==
    IF IsNaN(a) \/ IsNaN(b) THEN NaN
    ELSE IF IsInf(a) \/ IsInf(b) THEN <<Sign(a[1]) * Sign(b[1]), 0>>
    ELSE LET g1 == GCD(Abs(a[1]), b[2])
             g2 == GCD(Abs(b[1]), a[2])
         IN <<(a[1] \div g1) * (b[1] \div g2), (a[2] \div g2) * (b[2] \div g1)>>

FDiv(a, b) ==
    IF IsNaN(a) \/ IsNaN(b) THEN NaN
    ELSE IF IsInf(b) THEN (IF IsInf(a) THEN NaN ELSE Zero)
    ELSE IF b[1] = 0 THEN <<Sign(a[1]), 0>>
    ELSE IF IsInf(a) THEN <<Sign(a[1]) * Sign(b[1]), 0>>
    ELSE FMul(a, <<Sign(b[1]) * b[2], Abs(b[1])>>)

\* the largest s in lo..hi with s*s <= n (lo*lo <= n)
RECURSIVE SqrtSearch(_, _, _)
SqrtSearch(n, lo, hi) ==
    IF lo >= hi THEN lo
    ELSE LET mid == (lo + hi + 1) \div 2
         IN IF mid * mid <= n THEN SqrtSearch(n, mid, hi)
            ELSE SqrtSearch(n, lo, mid - 1)

ISqrt(n) == SqrtSearch(n, 0, IF n < 46340 THEN n ELSE 46340)

IsSquare(n) == n >= 0 /\ ISqrt(n) * ISqrt(n) = n

\* x ** 0.5; exact on the squares of rationals, the only finite arguments
\* the model's inputs produce (see RationalDistances)
FSqrt(a) ==
    IF IsNaN(a) \/ a[1] < 0 THEN NaN
    ELSE IF IsInf(a) THEN PosInf
    ELSE <<ISqrt(a[1]), ISqrt(a[2])>>

\* x ** 2
FSquare(a) == FMul(a, a)

----------------------------------------------------------------------------
(* numpy arrays: a 3-vector is a sequence of 3 numbers, an (N, 3) array a  *)
(* sequence of N 3-vectors                                                 *)

VAdd(u, v) == [c \in 1..3 |-> FAdd(u[c], v[c])]
VSub(u, v) == [c \in 1..3 |-> FSub(u[c], v[c])]
VMulS(u, s) == [c \in 1..3 |-> FMul(u[c], s)]
VDivS(u, s) == [c \in 1..3 |-> FDiv(u[c], s)]
ZeroVec == <<Zero, Zero, Zero>>

\* np.zeros((n, 3))
Zeros(n) == [i \in 1..n |-> ZeroVec]

----------------------------------------------------------------------------
(* force computation *)

G == <<1, 1>>

\* variant: the displacement taken from the second body to the first
force_between_planets_reversed(position1, mass1, position2, mass2) ==
    LET r == VSub(position1, position2)
        distance == FSqrt(FAdd(FAdd(FSquare(r[1]), FSquare(r[2])), FSquare(r[3])))
        force_magnitude == FDiv(FMul(FMul(G, mass1), mass2), FSquare(distance))
    IN VMulS(VDivS(r, distance), force_magnitude)

force_between_planets(position1, mass1, position2, mass2) ==
    LET r == VSub(position2, position1)
        distance == FSqrt(FAdd(FAdd(FSquare(r[1]), FSquare(r[2])), FSquare(r[3])))
        force_magnitude == FDiv(FMul(FMul(G, mass1), mass2), FSquare(distance))
    IN VMulS(VDivS(r, distance), force_magnitude)

\* variant: the pair force is not subtracted from forces[j]
PairStepNoReaction(f, i, j, pos, mss) ==
    LET force == force_between_planets(pos[i + 1], mss[i + 1], pos[j + 1], mss[j + 1])
    IN [f EXCEPT ![i + 1] = VAdd(@, force)]

\* the body of the inner loop for one pair (i, j), 0-based indices
PairStep(f, i, j, pos, mss) ==
    LET force == force_between_planets(pos[i + 1], mss[i + 1], pos[j + 1], mss[j + 1])
    IN [f EXCEPT ![i + 1] = VAdd(@, force), ![j + 1] = VSub(@, force)]

\* for j in range(j, num_planets)
RECURSIVE InnerLoop(_, _, _, _, _)
InnerLoop(f, i, j, pos, mss) ==
    IF j >= Len(pos) THEN f
    ELSE InnerLoop(PairStep(f, i, j, pos, mss), i, j + 1, pos, mss)

\* for i in range(i, end)
RECURSIVE OuterLoop(_, _, _, _, _)
OuterLoop(f, i, end, pos, mss) ==
    IF i >= end THEN f
    ELSE OuterLoop(InnerLoop(f, i, i + 1, pos, mss), i + 1, end, pos, mss)

\* args = <<start, end, positions, masses>>
calculate_forces_range(args) ==
    OuterLoop(Zeros(Len(args[3])), args[1], args[2], args[3], args[4])

calculate_forces(pos, mss) ==
    calculate_forces_range(<<0, Len(pos), pos, mss>>)

\* variant: every range runs to the last body, so ranges overlap
PoolArgsOverlap(pos, mss, cores) ==
    LET num_planets == Len(pos)
        chunk_size == num_planets \div cores
    IN [k \in 1..cores |-> <<(k - 1) * chunk_size, num_planets, pos, mss>>]

\* variant: the last range is a chunk like the others, the remainder is lost
PoolArgsNoRemainder(pos, mss, cores) ==
    LET num_planets == Len(pos)
        chunk_size == num_planets \div cores
    IN [k \in 1..cores |-> <<(k - 1) * chunk_size, k * chunk_size, pos, mss>>]

\* the list of argument tuples built for pool.map (task k is element k + 1)
PoolArgs(pos, mss, cores) ==
    LET num_planets == Len(pos)
        chunk_size == num_planets \div cores
    IN [k \in 1..cores |->
          <<(k - 1) * chunk_size,
            IF k - 1 # cores - 1 THEN k * chunk_size ELSE num_planets,
            pos, mss>>]

\* np.sum(results, axis=0) over the first k arrays
RECURSIVE SumResults(_, _, _)
SumResults(res, k, n) ==
    IF k = 0 THEN Zeros(n)
    ELSE LET acc == SumResults(res, k - 1, n)
         IN [i \in 1..n |-> VAdd(acc[i], res[k][i])]

calculate_forces_parallel(pos, mss, cores) ==
    LET args == PoolArgs(pos, mss, cores)
        res == [k \in 1..cores |-> calculate_forces_range(args[k])]
    IN SumResults(res, cores, Len(pos))

----------------------------------------------------------------------------
(* input and output files *)

\* A field of the input file is the decimal numeral m * 10^-e, written
\* Dec(m, e), or a text that is no numeral.
Dec(m, e) == <<m, e>>
NotANumber == <<"abc">>
Header == <<"px", "py", "pz">>

RECURSIVE Pow10(_)
Pow10(e) == IF e = 0 THEN 1 ELSE 10 * Pow10(e - 1)

IsNumeral(tok) == Len(tok) = 2

\* float(tok)
ParseFloat(tok) == Rat(tok[1], Pow10(tok[2]))

\* map(float, row) unpacked into 7 names raises ValueError unless the row
\* has 7 fields, all numerals
RowOk(row) == Len(row) = 7 /\ \A c \in 1..7 : IsNumeral(row[c])

\* read_data raises: no header line, or a bad row
ReadRaises(file) ==
    \/ Len(file) = 0
    \/ \E i \in 2..Len(file) : ~RowOk(file[i])

\* read_data: <<positions, velocities, masses>> of the rows after the header
read_data(file) ==
    LET rows == Tail(file)
    IN << [i \in 1..Len(rows) |-> [c \in 1..3 |-> ParseFloat(rows[i][c])]],
          [i \in 1..Len(rows) |-> [c \in 1..3 |-> ParseFloat(rows[i][c + 3])]],
          [i \in 1..Len(rows) |-> ParseFloat(rows[i][7])] >>

\* f"{x:.2f}": <<"fixed", h>> for the number h of hundredths nearest to x
\* (ties to even), or the text Python prints for a special value
Format2(a) ==
    IF IsNaN(a) THEN <<"nan", 0>>
    ELSE IF IsInf(a) THEN (IF a[1] > 0 THEN <<"inf", 0>> ELSE <<"-inf", 0>>)
    ELSE LET q == a[1] \div a[2]
             t == 100 * (a[1] % a[2])
             h == t \div a[2]
             rem == t % a[2]
             up == 2 * rem > a[2] \/ (2 * rem = a[2] /\ h % 2 = 1)
         IN <<"fixed", q * 100 + h + (IF up THEN 1 ELSE 0)>>

\* write_data: the header row, then one row per body in index order
write_data(pos) ==
    <<Header>> \o [i \in 1..Len(pos) |-> [c \in 1..3 |-> Format2(pos[i][c])]]

----------------------------------------------------------------------------
(* main *)

dt == <<1, 5>>

\* accelerations = forces / masses[:, np.newaxis]
Accelerations(f, mss) == [i \in 1..Len(f) |-> VDivS(f[i], mss[i])]

\* velocities += accelerations * dt
UpdateVelocities(vel, f, mss) ==
    LET accelerations == Accelerations(f, mss)
    IN [i \in 1..Len(vel) |-> VAdd(vel[i], VMulS(accelerations[i], dt))]

\* positions += velocities * dt
UpdatePositions(pos, vel) ==
    [i \in 1..Len(pos) |-> VAdd(pos[i], VMulS(vel[i], dt))]

\* variant: the positions advance by the velocities of before the step
IntegrateStepOldVelocity(pos, vel, f, mss) ==
    <<UpdatePositions(pos, vel), UpdateVelocities(vel, f, mss)>>

\* the two in-place updates of one step: <<positions, velocities>> after it
IntegrateStep(pos, vel, f, mss) ==
    LET vel2 == UpdateVelocities(vel, f, mss)
    IN <<UpdatePositions(pos, vel2), vel2>>

\* variant: the loop body runs once more
LoopContinuesInclusive(s, n) == s <= n

\* the test of "for step in range(num_steps)"
LoopContinues(s, n) == s < n

\* variant: the snapshot is stored one entry too early
RecordSnapshotShifted(traj, s, pos) == [traj EXCEPT ![s] = pos]

\* trajectories[step] = positions (a copy of the values, step 0-based)
RecordSnapshot(traj, s, pos) == [traj EXCEPT ![s + 1] = pos]

\* An array read from a file with no data rows has shape (0,), not (0, 3):
\* assigning it into trajectories[step] and adding an (0, 3) array to it in
\* place both raise ValueError.
ShapeMismatch(pos) == Len(pos) = 0

\* pool.map returns (or raises) only when every task has finished
MapComplete(res) == \A k \in 1..Len(res) : res[k].state # "pending"
MapRaises(res) == \E k \in 1..Len(res) : res[k].state = "raised"

\* np.sum(results, axis=0) of the returned arrays
Reduce(res, n) == SumResults([k \in 1..Len(res) |-> res[k].value], Len(res), n)

\* positions, velocities, masses = read_data(input_file)
ReadData ==
    /\ pc = "read"
    /\ IF ReadRaises(input_file)
       THEN /\ pc' = "failed"
            /\ UNCHANGED <<positions, velocities, masses, trajectories>>
       ELSE LET data == read_data(input_file)
            IN /\ positions' = data[1]
               /\ velocities' = data[2]
               /\ masses' = data[3]
               /\ trajectories' =
                      IF trajectories_file
                      THEN [s \in 1..num_steps |-> Zeros(Len(data[1]))]
                      ELSE trajectories
               /\ pc' = "loop"
    /\ UNCHANGED <<input_file, num_steps, num_cores, trajectories_file, step,
                   forces, pool_args, results, output_file, trajectories_out>>

\* for step in range(num_steps): ...; trajectories[step] = positions
BeginStep ==
    /\ pc = "loop"
    /\ LoopContinues(step, num_steps)
    /\ IF trajectories_file
       THEN IF ShapeMismatch(positions)
            THEN pc' = "failed" /\ UNCHANGED trajectories
            ELSE /\ trajectories' = RecordSnapshot(trajectories, step, positions)
                 /\ pc' = "forces"
       ELSE pc' = "forces" /\ UNCHANGED trajectories
    /\ UNCHANGED <<input_file, num_steps, num_cores, trajectories_file, positions,
                   velocities, masses, step, forces, pool_args, results,
                   output_file, trajectories_out>>

\* forces = calculate_forces(positions, masses)
SerialForces ==
    /\ pc = "forces"
    /\ ~(num_cores > 1)
    /\ forces' = calculate_forces(positions, masses)
    /\ pc' = "integrate"
    /\ UNCHANGED <<input_file, num_steps, num_cores, trajectories_file, positions,
                   velocities, masses, step, trajectories, pool_args, results,
                   output_file, trajectories_out>>

\* calculate_forces_parallel up to the call of pool.map: each task gets its
\* own (pickled) copy of positions and masses
Dispatch ==
    /\ pc = "forces"
    /\ num_cores > 1
    /\ pool_args' = PoolArgs(positions, masses, num_cores)
    /\ results' = [k \in 1..num_cores |-> Pending]
    /\ pc' = "map"
    /\ UNCHANGED <<input_file, num_steps, num_cores, trajectories_file, positions,
                   velocities, masses, step, forces, trajectories, output_file,
                   trajectories_out>>

\* a pool process runs calculate_forces_range on task k
WorkerRun(k) ==
    /\ pc = "map"
    /\ results[k].state = "pending"
    /\ results' = [results EXCEPT ![k] = Returned(calculate_forces_range(pool_args[k]))]
    /\ UNCHANGED <<pc, input_file, num_steps, num_cores, trajectories_file,
                   positions, velocities, masses, step, forces, trajectories,
                   pool_args, output_file, trajectories_out>>

\* task k raises in its pool process (the exception is kept for pool.map)
WorkerRaise(k) ==
    /\ pc = "map"
    /\ results[k].state = "pending"
    /\ results' = [results EXCEPT ![k] = RaisedTask]
    /\ UNCHANGED <<pc, input_file, num_steps, num_cores, trajectories_file,
                   positions, velocities, masses, step, forces, trajectories,
                   pool_args, output_file, trajectories_out>>

\* variant: a task's exception is swallowed and the step goes on with the
\* forces of before
MapReturnIgnoreErrors ==
    /\ pc = "map"
    /\ MapComplete(results)
    /\ IF MapRaises(results)
       THEN pc' = "integrate" /\ UNCHANGED forces
       ELSE /\ forces' = Reduce(results, Len(positions))
            /\ pc' = "integrate"
    /\ UNCHANGED <<input_file, num_steps, num_cores, trajectories_file, positions,
                   velocities, masses, step, trajectories, pool_args, results,
                   output_file, trajectories_out>>

\* variant: the call returns once some task has returned, summing the arrays
\* that are there
MapReturnEarly ==
    /\ pc = "map"
    /\ \E k \in 1..Len(results) : results[k].state = "returned"
    /\ forces' = SumResults([k \in 1..Len(results) |->
                                IF results[k].state = "returned"
                                THEN results[k].value
                                ELSE Zeros(Len(positions))],
                            Len(results), Len(positions))
    /\ pc' = "integrate"
    /\ UNCHANGED <<input_file, num_steps, num_cores, trajectories_file, positions,
                   velocities, masses, step, trajectories, pool_args, results,
                   output_file, trajectories_out>>

\* pool.map returns the list of arrays, or re-raises a task's exception;
\* then np.sum, pool.close, pool.join, return
MapReturn ==
    /\ pc = "map"
    /\ MapComplete(results)
    /\ IF MapRaises(results)
       THEN pc' = "failed" /\ UNCHANGED forces
       ELSE /\ forces' = Reduce(results, Len(positions))
            /\ pc' = "integrate"
    /\ UNCHANGED <<input_file, num_steps, num_cores, trajectories_file, positions,
                   velocities, masses, step, trajectories, pool_args, results,
                   output_file, trajectories_out>>

\* update velocities and positions; next step
Integrate ==
    /\ pc = "integrate"
    /\ IF ShapeMismatch(velocities)
       THEN pc' = "failed" /\ UNCHANGED <<positions, velocities, step>>
       ELSE LET new == IntegrateStep(positions, velocities, forces, masses)
            IN /\ positions' = new[1]
               /\ velocities' = new[2]
               /\ step' = step + 1
               /\ pc' = "loop"
    /\ UNCHANGED <<input_file, num_steps, num_cores, trajectories_file, masses,
                   forces, trajectories, pool_args, results, output_file,
                   trajectories_out>>

\* the loop is over: write_data(positions, output_file)
WriteData ==
    /\ pc = "loop"
    /\ ~LoopContinues(step, num_steps)
    /\ output_file' = Written(write_data(positions))
    /\ pc' = IF trajectories_file THEN "savez" ELSE "done"
    /\ UNCHANGED <<input_file, num_steps, num_cores, trajectories_file, positions,
                   velocities, masses, step, forces, trajectories, pool_args,
                   results, trajectories_out>>

\* np.savez_compressed(trajectories_file, trajectories)
SaveTrajectories ==
    /\ pc = "savez"
    /\ trajectories_out' = Written(trajectories)
    /\ pc' = "done"
    /\ UNCHANGED <<input_file, num_steps, num_cores, trajectories_file, positions,
                   velocities, masses, step, forces, trajectories, pool_args,
                   results, output_file>>

----------------------------------------------------------------------------
(* the runs explored *)

MaxN == 3
MaxSteps == 2
MaxCores == 3

InputHeader == <<"px", "py", "pz", "vx", "vy", "vz", "m">>

\* data rows: bodies on the x axis moving along it, so that every distance
\* stays rational; the last one has mass 0
Rows ==
    { <<Dec(10, 1), Dec(0, 0), Dec(0, 0), Dec(5, 0), Dec(0, 0), Dec(0, 0), Dec(100, 0)>>,
      <<Dec(3, 0), Dec(0, 0), Dec(0, 0), Dec(50, 1), Dec(0, 0), Dec(0, 0), Dec(225, 0)>>,
      <<Dec(500, 2), Dec(0, 0), Dec(0, 0), Dec(5, 0), Dec(0, 0), Dec(0, 0), Dec(1000, 1)>>,
      <<Dec(0, 0), Dec(0, 0), Dec(0, 0), Dec(5, 0), Dec(0, 0), Dec(0, 0), Dec(0, 0)>> }

\* rows that make read_data raise: 6 fields, a field that is no number
BadRows ==
    { <<Dec(1, 0), Dec(0, 0), Dec(0, 0), Dec(0, 0), Dec(0, 0), Dec(1, 0)>>,
      <<Dec(1, 0), Dec(0, 0), Dec(0, 0), NotANumber, Dec(0, 0), Dec(0, 0), Dec(1, 0)>> }

InputFiles ==
    {<<>>}
    \cup {<<InputHeader>> \o rows : rows \in UNION {[1..n -> Rows] : n \in 0..MaxN}}
    \cup {<<InputHeader, good, bad>> : good \in Rows, bad \in BadRows}

Init ==
    /\ pc = "read"
    /\ input_file \in InputFiles
    /\ num_steps \in 0..MaxSteps
    /\ num_cores \in 1..MaxCores
    /\ trajectories_file \in BOOLEAN
    /\ positions = <<>>
    /\ velocities = <<>>
    /\ masses = <<>>
    /\ step = 0
    /\ forces = <<>>
    /\ trajectories = <<>>
    /\ pool_args = <<>>
    /\ results = <<>>
    /\ output_file = NotWritten
    /\ trajectories_out = NotWritten

Next ==
    \/ ReadData
    \/ BeginStep
    \/ SerialForces
    \/ Dispatch
    \/ \E k \in 1..num_cores : WorkerRun(k)
    \/ \E k \in 1..num_cores : WorkerRaise(k)
    \/ MapReturn
    \/ Integrate
    \/ WriteData
    \/ SaveTrajectories

Spec == Init /\ [][Next]_vars

----------------------------------------------------------------------------
(* the force functions called on their own *)

MaxBodies == 10

Vec(x, y, z) == <<Rat(x, 1), Rat(y, 1), Rat(z, 1)>>

\* the squared distance of two points
Dist2(p, q) ==
    FAdd(FAdd(FSquare(FSub(q[1], p[1])), FSquare(FSub(q[2], p[2]))),
         FSquare(FSub(q[3], p[3])))

\* every pairwise distance is rational: FSqrt is exact on this configuration
RationalDistances(pos) ==
    \A i, j \in 1..Len(pos) :
        LET d2 == Dist2(pos[i], pos[j])
        IN IsFinite(d2) => IsSquare(d2[1]) /\ IsSquare(d2[2])

Points ==
    { Vec(0, 0, 0), Vec(1, 0, 0), Vec(3, 4, 0), Vec(0, 0, 12), Vec(3, 4, 12) }

PointMasses == { Rat(1, 1), Rat(2, 1) }

\* n bodies of mass 1 in a row on the x axis
LineUp(n) == [i \in 1..n |-> Vec(i - 1, 0, 0)]
UnitMasses(n) == [i \in 1..n |-> Rat(1, 1)]

InitForce ==
    /\ pc = "call"
    /\ num_cores \in 1..MaxCores
    /\ \/ \E n \in 0..MaxN :
            /\ positions \in [1..n -> Points]
            /\ masses \in [1..n -> PointMasses]
            /\ RationalDistances(positions)
       \/ \E n \in (MaxN + 1)..MaxBodies :
            /\ positions = LineUp(n)
            /\ masses = UnitMasses(n)
    /\ input_file = <<>>
    /\ num_steps = 0
    /\ trajectories_file = FALSE
    /\ velocities = <<>>
    /\ step = 0
    /\ forces = <<>>
    /\ trajectories = <<>>
    /\ pool_args = <<>>
    /\ results = <<>>
    /\ output_file = NotWritten
    /\ trajectories_out = NotWritten

\* forces = calculate_forces(positions, masses)
CallSerial ==
    /\ pc = "call"
    /\ forces' = calculate_forces(positions, masses)
    /\ pc' = "serial"
    /\ UNCHANGED <<input_file, num_steps, num_cores, trajectories_file, positions,
                   velocities, masses, step, trajectories, pool_args, results,
                   output_file, trajectories_out>>

\* forces = calculate_forces_parallel(positions, masses, num_cores), with the
\* argument tuples and the per-task arrays it went through
CallParallel ==
    /\ pc = "call"
    /\ pool_args' = PoolArgs(positions, masses, num_cores)
    /\ results' = [k \in 1..num_cores |-> Returned(calculate_forces_range(pool_args'[k]))]
    /\ forces' = calculate_forces_parallel(positions, masses, num_cores)
    /\ pc' = "parallel"
    /\ UNCHANGED <<input_file, num_steps, num_cores, trajectories_file, positions,
                   velocities, masses, step, trajectories, output_file,
                   trajectories_out>>

NextForce == CallSerial \/ CallParallel

ForceSpec == InitForce /\ [][NextForce]_vars

----------------------------------------------------------------------------
(* properties of the force functions (ForceSpec) *)

NumPlanets == Len(positions)

\* no two bodies at the same position
NoCoincident(pos) ==
    \A i, j \in 1..Len(pos) : i # j => pos[i] # pos[j]

\* the sum of an array's rows
RECURSIVE SumRows(_, _)
SumRows(f, n) == IF n = 0 THEN ZeroVec ELSE VAdd(SumRows(f, n - 1), f[n])

\* the tasks whose range holds the outer index i (0-based)
TasksOf(i) == {k \in 1..Len(pool_args) : pool_args[k][1] <= i /\ i < pool_args[k][2]}

\* C1: for N >= 1 bodies, no two at the same position, and 1 <= C <= N workers,
\* calculate_forces_parallel returns the array calculate_forces returns, it is
\* the element-wise sum of the C per-range arrays, and every pair (i, j), i < j,
\* lies in the range of exactly one task
C1_ParallelEqualsSerial ==
    (/\ pc = "parallel"
     /\ NumPlanets >= 1
     /\ NoCoincident(positions)
     /\ num_cores <= NumPlanets)
    => /\ forces = calculate_forces(positions, masses)
       /\ forces = Reduce(results, NumPlanets)
       /\ \A i \in 0..(NumPlanets - 2) : Cardinality(TasksOf(i)) = 1

C1_Witness ==
    /\ pc = "parallel"
    /\ NumPlanets = 3
    /\ num_cores = 2
    /\ NoCoincident(positions)
    /\ positions[3][3] # Zero
    /\ \A i \in 1..3 : forces[i] # ZeroVec
    /\ results[1].value # forces
    /\ forces = calculate_forces(positions, masses)

\* the size of task k's range
RangeSize(k) == pool_args[k][2] - pool_args[k][1]

\* C2: the ranges built for N >= 0 bodies and C >= 1 workers are C contiguous,
\* disjoint ranges covering [0, N): range k < C-1 is [k*(N//C), (k+1)*(N//C)),
\* the last is [(C-1)*(N//C), N) and is never smaller than another; N = 10,
\* C = 3 gives [0,3), [3,6), [6,10)
C2_RangesPartition ==
    pc = "parallel" =>
        LET N == NumPlanets
            C == num_cores
            chunk == N \div C
        IN /\ Len(pool_args) = C
           /\ pool_args[1][1] = 0
           /\ pool_args[C][2] = N
           /\ \A k \in 1..C : pool_args[k][1] <= pool_args[k][2]
           /\ \A k \in 1..(C - 1) : pool_args[k][2] = pool_args[k + 1][1]
           /\ \A k \in 1..(C - 1) :
                  pool_args[k][1] = (k - 1) * chunk /\ pool_args[k][2] = k * chunk
           /\ pool_args[C][1] = (C - 1) * chunk
           /\ RangeSize(C) = N - (C - 1) * chunk
           /\ \A k \in 1..C : RangeSize(k) <= RangeSize(C)
           /\ \A i \in 0..(N - 1) : Cardinality(TasksOf(i)) = 1
           /\ (N = 10 /\ C = 3) =>
                  /\ <<pool_args[1][1], pool_args[1][2]>> = <<0, 3>>
                  /\ <<pool_args[2][1], pool_args[2][2]>> = <<3, 6>>
                  /\ <<pool_args[3][1], pool_args[3][2]>> = <<6, 10>>

C2_Witness ==
    /\ pc = "parallel"
    /\ NumPlanets = 10
    /\ num_cores = 3
    /\ RangeSize(3) = 4

\* C5: with no two bodies at the same position, the forces returned by
\* calculate_forces sum to the zero vector, and so do the array of each
\* single range and the combined parallel result
C5_ForcesSumToZero ==
    NoCoincident(positions) =>
        /\ pc = "serial" => SumRows(forces, NumPlanets) = ZeroVec
        /\ pc = "parallel" =>
               /\ SumRows(forces, NumPlanets) = ZeroVec
               /\ \A k \in 1..num_cores :
                      SumRows(results[k].value, NumPlanets) = ZeroVec

C5_Witness ==
    /\ pc = "parallel"
    /\ NumPlanets = 3
    /\ num_cores = 3
    /\ NoCoincident(positions)
    /\ \A i \in 1..3 : forces[i] # ZeroVec
    /\ results[2].value[2] # ZeroVec
    /\ SumRows(forces, 3) = ZeroVec

\* C6: for two bodies at distinct positions the force on the first is the unit
\* vector toward the second times G*mass1*mass2/distance^2 (G = 1), and the
\* force array gives the second body its negation; mass 1 at (0,0,0) and mass 2
\* at (1,0,0) give (2,0,0) and (-2,0,0).  With d2 the squared distance, the
\* first part reads f[c]^2 * d2^3 = (r[c]*m1*m2)^2, f[c] having the sign of
\* r[c]*m1*m2.
C6_TwoBodyForce ==
    (pc = "serial" /\ NumPlanets = 2 /\ positions[1] # positions[2]) =>
        LET r == VSub(positions[2], positions[1])
            d2 == Dist2(positions[1], positions[2])
            mm == FMul(masses[1], masses[2])
        IN /\ \A c \in 1..3 :
                  /\ FMul(FSquare(forces[1][c]), FMul(d2, FSquare(d2)))
                         = FSquare(FMul(r[c], mm))
                  /\ Sign(forces[1][c][1]) = Sign(FMul(r[c], mm)[1])
                  /\ forces[2][c] = FNeg(forces[1][c])
           /\ (positions = <<Vec(0, 0, 0), Vec(1, 0, 0)>>
               /\ masses = <<Rat(1, 1), Rat(2, 1)>>)
              => forces = <<Vec(2, 0, 0), Vec(-2, 0, 0)>>

C6_Witness ==
    /\ pc = "serial"
    /\ positions = <<Vec(0, 0, 0), Vec(1, 0, 0)>>
    /\ masses = <<Rat(1, 1), Rat(2, 1)>>
    /\ forces = <<Vec(2, 0, 0), Vec(-2, 0, 0)>>

----------------------------------------------------------------------------
(* properties of a run of main (Spec) *)

AllFinite(arr) == \A i \in 1..Len(arr) : \A c \in 1..3 : IsFinite(arr[i][c])

\* some mass is <= 0, or two bodies are at the same position
Degenerate(pos, mss) ==
    \/ \E i \in 1..Len(mss) : IsFinite(mss[i]) /\ mss[i][1] <= 0
    \/ ~NoCoincident(pos)

AnyRaised == \E k \in 1..Len(results) : results[k].state = "raised"
AnyPending == \E k \in 1..Len(results) : results[k].state = "pending"

\* C3: a degenerate configuration (a mass <= 0, two bodies at one position)
\* makes the force computation abort with an error: no force array computed
\* from a degenerate configuration is handed to the integration
C3_DegenerateFails ==
    pc = "integrate" => ~Degenerate(positions, masses)

\* C4: the output file is written only after all num_steps steps completed
\* without error; a failure (of read_data, of a pool task, of the snapshot or
\* the update) at a step k < num_steps ends the run in Failed, where nothing
\* is or has been written and no further step is taken
C4_NoOutputOnFailure ==
    /\ [](output_file.written =>
              pc \in {"savez", "done"} /\ step = num_steps /\ ~AnyRaised)
    /\ [](trajectories_out.written => pc = "done" /\ output_file.written)
    /\ [](AnyRaised => pc \in {"map", "failed"})
    /\ [](pc = "failed" =>
              /\ ~output_file.written
              /\ ~trajectories_out.written
              /\ ReadRaises(input_file) \/ step < num_steps)
    /\ [][pc # "failed"]_vars

C4_Witness ==
    /\ pc = "failed"
    /\ num_steps = 2
    /\ step = 1
    /\ results[1].state = "returned"
    /\ results[2].state = "raised"
    /\ AllFinite(positions)
    /\ ~output_file.written

\* C7: with num_steps = 0 no force is computed and nothing is integrated,
\* whatever the worker count: the positions handed to write_data are the
\* input's, in index order, and the velocities are the input's
C7_ZeroSteps ==
    num_steps = 0 =>
        /\ pc \notin {"forces", "map", "integrate"}
        /\ step = 0 /\ forces = <<>> /\ pool_args = <<>> /\ results = <<>>
        /\ pc \in {"loop", "savez", "done"} =>
               /\ Len(positions) = Len(input_file) - 1
               /\ Len(velocities) = Len(input_file) - 1
               /\ \A i \in 1..Len(positions) : \A c \in 1..3 :
                      /\ positions[i][c] = ParseFloat(input_file[i + 1][c])
                      /\ velocities[i][c] = ParseFloat(input_file[i + 1][c + 3])
        /\ pc \in {"savez", "done"} =>
               /\ output_file.written
               /\ Len(output_file.data) = Len(input_file)
               /\ \A i \in 1..Len(positions) : \A c \in 1..3 :
                      output_file.data[i + 1][c]
                          = Format2(ParseFloat(input_file[i + 1][c]))

C7_Witness ==
    /\ num_steps = 0
    /\ pc = "done"
    /\ num_cores = 3
    /\ Len(positions) = 3
    /\ positions[1] # positions[2]
    /\ output_file.data[2] = <<<<"fixed", 100>>, <<"fixed", 0>>, <<"fixed", 0>>>>

\* C8: a step is a barrier.  Pool tasks run only while main waits in pool.map;
\* every task of a step was given the positions main holds (those left by the
\* previous step's update); the update of the step starts only when all C
\* tasks have returned and their arrays are summed
C8_StepBarrier ==
    /\ AnyPending => pc = "map"
    /\ pc = "map" =>
           /\ Len(pool_args) = num_cores /\ Len(results) = num_cores
           /\ \A k \in 1..num_cores :
                  pool_args[k][3] = positions /\ pool_args[k][4] = masses
    /\ (pc = "integrate" /\ num_cores > 1) =>
           /\ Len(results) = num_cores
           /\ \A k \in 1..num_cores :
                  /\ results[k].state = "returned"
                  /\ results[k].value = calculate_forces_range(
                         <<pool_args[k][1], pool_args[k][2], positions, masses>>)
           /\ forces = Reduce(results, Len(positions))

C8_Witness ==
    /\ pc = "integrate"
    /\ num_cores = 3
    /\ step = 1
    /\ Len(positions) = 3
    /\ AllFinite(forces)
    /\ forces[1] # ZeroVec
    /\ results[1].value # forces
    /\ \A k \in 1..3 : results[k].state = "returned"

\* C9: each update sets velocity' = velocity + (force / mass) * dt and then
\* position' = position + velocity' * dt (the velocity just updated), the
\* forces being those of the positions before the update
C9_SymplecticEuler ==
    [][(pc = "integrate" /\ pc' = "loop") =>
          /\ step' = step + 1
          /\ Len(positions') = Len(positions) /\ Len(velocities') = Len(velocities)
          /\ forces = calculate_forces(positions, masses)
          /\ \A i \in 1..Len(positions) : \A c \in 1..3 :
                 /\ velocities'[i][c]
                        = FAdd(velocities[i][c], FMul(FDiv(forces[i][c], masses[i]), dt))
                 /\ positions'[i][c]
                        = FAdd(positions[i][c], FMul(velocities'[i][c], dt))]_vars

C9_Witness ==
    /\ pc = "loop"
    /\ step = 2
    /\ Len(positions) = 3
    /\ AllFinite(positions)
    /\ AllFinite(velocities)
    /\ velocities[1][1] # Rat(5, 1)
    /\ velocities[3][1] # Rat(5, 1)

\* the number of snapshots written so far
SnapshotsWritten == IF pc \in {"forces", "map", "integrate"} THEN step + 1 ELSE step

\* C10: with recording on, the trajectory has num_steps snapshots; snapshot k
\* is the positions at the start of step k (snapshot 0 the input positions);
\* no later update changes a snapshot; the file written holds them all
C10_Trajectory ==
    /\ []((trajectories_file /\ pc \notin {"read", "failed"}) =>
              Len(trajectories) = num_steps)
    /\ []((trajectories_file /\ pc \in {"forces", "map", "integrate"}) =>
              trajectories[step + 1] = positions)
    /\ []((trajectories_file /\ pc \notin {"read", "failed"} /\ SnapshotsWritten >= 1) =>
              \A i \in 1..Len(positions) : \A c \in 1..3 :
                  trajectories[1][i][c] = ParseFloat(input_file[i + 1][c]))
    /\ [](trajectories_out.written =>
              /\ trajectories_file /\ step = num_steps
              /\ trajectories_out.data = trajectories)
    /\ [][(trajectories_file /\ pc \notin {"read", "failed"}) =>
              \A k \in 1..SnapshotsWritten : trajectories'[k] = trajectories[k]]_vars

C10_Witness ==
    /\ pc = "done"
    /\ trajectories_out.written
    /\ num_steps = 2
    /\ Len(positions) = 3
    /\ AllFinite(positions)
    /\ trajectories_out.data[1] # trajectories_out.data[2]
    /\ trajectories_out.data[2] # positions

====
